---- MODULE Spec2Model ----
(***************************************************************************)
(* The backend supervisor and status synchronisation of the MCP Scooter    *)
(* desktop shell (desktop/src-tauri/src/lib.rs).                           *)
(*                                                                         *)
(* Three specifications share this module:                                 *)
(*   Spec          the running application: setup, the restart tasks, the  *)
(*                 exit handler, the polling task, the backend children;   *)
(*   SpecDiff      status_changed, build_tray_menu and the icon selection  *)
(*                 applied to pairs (last_status, status);                 *)
(*   SpecSnapshot  the same applied to (s, s), s drawn from a richer set   *)
(*                 of snapshots.                                           *)
(***************************************************************************)
EXTENDS Integers, Sequences, FiniteSets, TLC

VARIABLES
    \* ---- the application (Spec)
    app,          \* "setup" | "running" | "exiting" (app.exit called) |
                  \* "killed" (the exit handler has run) | "exited"
    slot,         \* BACKEND_PROCESS: 0 is None, a pid is Some(child)
    alive,        \* the children spawned by this application that still run
    spawned,      \* how many children spawn_backend has created so far
    rpc,          \* restart task -> the step it is about to perform
    rchild,       \* restart task -> the child it holds between spawn and store
    rlog,         \* restart task -> the steps it has performed, in order
    rempty,       \* restart task in flight -> whether the slot was empty when it started
    winShown,     \* whether the main window is shown
    lock,         \* who holds the lock of BACKEND_PROCESS: 0 is nobody, t a restart task
    ppc,          \* the polling task: "off" | "delay" | "fetch" | "apply" | "sleep"
    status,       \* the polling task's `status` (Option<AppStatus>)
    last_status,  \* the polling task's `last_status`
    menu,         \* the menu the tray shows
    icon,         \* the icon the tray shows
    allAbsent,    \* no poll has yet returned a present snapshot
    \* ---- the functions applied to drawn inputs (SpecDiff, SpecSnapshot)
    argFetch, argLast, argStatus, evald, resChanged, resMenu, resIcon, resLastMenu, resLastIcon

appVars  == <<app, slot, alive, spawned, rpc, rchild, rlog, rempty, winShown, lock>>
pollVars == <<ppc, status, last_status, menu, icon, allAbsent>>
evalVars == <<argFetch, argLast, argStatus, evald, resChanged, resMenu, resIcon, resLastMenu, resLastIcon>>
vars     == <<appVars, pollVars, evalVars>>

(***************************************************************************)
(* Option<T>: None is the empty sequence, Some(x) the one-element one.     *)
(***************************************************************************)
None    == <<>>
Some(x) == <<x>>
IsSome(o) == o # None
Unwrap(o) == o[1]

\* Option<&[T]>::unwrap_or_default: the slice, or the empty slice for None
UnwrapOrDefault(o) == IF IsSome(o) THEN Unwrap(o) ELSE <<>>

(***************************************************************************)
(* The status types                                                        *)
(***************************************************************************)
ToolStatus(name, st) == [name |-> name, status |-> st]

ProfileStatus(id, running, active_tools, tool_status) ==
    [id |-> id, running |-> running, active_tools |-> active_tools,
     tool_status |-> tool_status]

AppStatus(gateway_running, control_port, mcp_port, active_profile_id, profiles) ==
    [gateway_running |-> gateway_running, control_port |-> control_port,
     mcp_port |-> mcp_port, active_profile_id |-> active_profile_id,
     profiles |-> profiles]

(***************************************************************************)
(* build_tray_menu                                                         *)
(***************************************************************************)
Item(id, text, enabled) == [id |-> id, text |-> text, enabled |-> enabled]
Separator == Item(<<"separator">>, <<>>, FALSE)

\* A text is the tuple of the pieces format!() joins; a glyph is written by
\* its name ("green" for the green circle, "reload" for the arrow of the
\* restart entry, "bullet" for the dot of the active profile).
\* the glyph of one tool line
StatusGlyph(st) ==
    CASE st = "ok"      -> "green"
      [] st = "idle"    -> "white"
      [] st = "warning" -> "yellow"
      [] OTHER          -> "red"

ToolItem(tool) ==
    Item(<<"tool_", tool.name>>, <<"    ", StatusGlyph(tool.status), " ", tool.name>>, TRUE)

RECURSIVE ToolItems(_)
ToolItems(tools) ==
    IF tools = <<>> THEN <<>>
    ELSE <<ToolItem(Head(tools))>> \o ToolItems(Tail(tools))

\* the lines of one profile with the test of p.running left out
ProfileItems_any(p, active_profile_id) ==
    LET tools == UnwrapOrDefault(p.tool_status)
        label == IF p.id = active_profile_id
                 THEN <<"bullet", " Profile: ", p.id>> ELSE <<"  Profile: ", p.id>>
    IN IF tools # <<>>
       THEN <<Item(<<"profile_", p.id>>, label, FALSE)>> \o ToolItems(tools)
       ELSE <<>>

\* the lines one profile contributes: none unless it runs and has tools
ProfileItems(p, active_profile_id) ==
    LET tools == UnwrapOrDefault(p.tool_status)
        label == IF p.id = active_profile_id
                 THEN <<"bullet", " Profile: ", p.id>> ELSE <<"  Profile: ", p.id>>
    IN IF p.running /\ tools # <<>>
       THEN <<Item(<<"profile_", p.id>>, label, FALSE)>> \o ToolItems(tools)
       ELSE <<>>

RECURSIVE AllProfileItems(_, _)
AllProfileItems(profiles, active_profile_id) ==
    IF profiles = <<>> THEN <<>>
    ELSE ProfileItems(Head(profiles), active_profile_id)
         \o AllProfileItems(Tail(profiles), active_profile_id)

\* has_tools after the loop over the profiles
HasTools(profiles) ==
    \E i \in 1..Len(profiles) :
        profiles[i].running /\ UnwrapOrDefault(profiles[i].tool_status) # <<>>

\* build_tray_menu without the restart entry of the present branch
build_tray_menu_no_restart(st) ==
    (IF IsSome(st) THEN
        LET s == Unwrap(st) IN
        <<Item(<<"status_header">>,
               <<"Gateway: ", IF s.gateway_running THEN "Running" ELSE "Stopped",
                 " (Port ", ToString(s.mcp_port), ")">>, FALSE),
          Separator>>
        \o (IF s.active_profile_id # ""
            THEN <<Item(<<"active_profile_header">>,
                        <<"Active Profile: ", s.active_profile_id>>, FALSE),
                   Separator>>
            ELSE <<>>)
        \o AllProfileItems(s.profiles, s.active_profile_id)
        \o (IF ~HasTools(s.profiles)
            THEN <<Item(<<"no_tools">>, <<"No tools enabled">>, FALSE)>>
            ELSE <<>>)
        \o <<Separator>>
     ELSE
        <<Item(<<"gateway_status">>, <<"Connecting to Gateway...">>, FALSE),
          Separator>>)
    \o <<Item(<<"show">>, <<"Open MCP Scooter Dashboard">>, TRUE),
         Item(<<"quit">>, <<"Quit MCP Scooter">>, TRUE)>>

build_tray_menu(st) ==
    (IF IsSome(st) THEN
        LET s == Unwrap(st) IN
        <<Item(<<"status_header">>,
               <<"Gateway: ", IF s.gateway_running THEN "Running" ELSE "Stopped",
                 " (Port ", ToString(s.mcp_port), ")">>, FALSE),
          Separator>>
        \o (IF s.active_profile_id # ""
            THEN <<Item(<<"active_profile_header">>,
                        <<"Active Profile: ", s.active_profile_id>>, FALSE),
                   Separator>>
            ELSE <<>>)
        \o AllProfileItems(s.profiles, s.active_profile_id)
        \o (IF ~HasTools(s.profiles)
            THEN <<Item(<<"no_tools">>, <<"No tools enabled">>, FALSE)>>
            ELSE <<>>)
        \o <<Separator,
             Item(<<"restart">>, <<"reload", " Restart Gateway">>, TRUE),
             Separator>>
     ELSE
        <<Item(<<"gateway_status">>, <<"Connecting to Gateway...">>, FALSE),
          Separator>>)
    \o <<Item(<<"show">>, <<"Open MCP Scooter Dashboard">>, TRUE),
         Item(<<"quit">>, <<"Quit MCP Scooter">>, TRUE)>>

(***************************************************************************)
(* The icon selection of the polling task                                  *)
(***************************************************************************)
AnyToolNotOk(profiles) ==
    \E i \in 1..Len(profiles) :
        LET tools == UnwrapOrDefault(profiles[i].tool_status)
        IN \E j \in 1..Len(tools) : tools[j].status # "ok"

\* the icon selection looking only at the tools of running profiles
icon_name_running_only(st) ==
    IF IsSome(st) THEN
        IF ~Unwrap(st).gateway_running THEN "tray-error.png"
        ELSE IF \E i \in 1..Len(Unwrap(st).profiles) :
                   /\ Unwrap(st).profiles[i].running
                   /\ AnyToolNotOk(<<Unwrap(st).profiles[i]>>)
             THEN "tray-warning.png"
        ELSE "tray-ok.png"
    ELSE "tray-error.png"

icon_name(st) ==
    IF IsSome(st) THEN
        IF ~Unwrap(st).gateway_running THEN "tray-error.png"
        ELSE IF AnyToolNotOk(Unwrap(st).profiles) THEN "tray-warning.png"
        ELSE "tray-ok.png"
    ELSE "tray-error.png"

(***************************************************************************)
(* status_changed                                                          *)
(***************************************************************************)
\* ls.profiles.iter().find(|lp| lp.id == id): the index of the first match, or 0
RECURSIVE FindFrom(_, _, _)
FindFrom(profiles, id, i) ==
    IF i > Len(profiles) THEN 0
    ELSE IF profiles[i].id = id THEN i
    ELSE FindFrom(profiles, id, i + 1)

FindProfile(profiles, id) == FindFrom(profiles, id, 1)

\* the closure with unwrap_or(false): a profile without counterpart is no change
ProfileChanged_missing_same(p, lprofiles) ==
    LET k == FindProfile(lprofiles, p.id)
    IN IF k = 0 THEN FALSE
       ELSE \/ lprofiles[k].active_tools # p.active_tools
            \/ lprofiles[k].tool_status # p.tool_status

\* the closure comparing the whole profile (lp != p) instead of two fields
ProfileChanged_whole(p, lprofiles) ==
    LET k == FindProfile(lprofiles, p.id)
    IN IF k = 0 THEN TRUE ELSE lprofiles[k] # p

\* the closure of s.profiles.iter().any(..) for one profile p of the new status
ProfileChanged(p, lprofiles) ==
    LET k == FindProfile(lprofiles, p.id)
    IN IF k = 0 THEN TRUE
       ELSE \/ lprofiles[k].active_tools # p.active_tools
            \/ lprofiles[k].tool_status # p.tool_status

\* status_changed without the comparison of the lengths
status_changed_no_len(st, lst) ==
    IF IsSome(st) /\ IsSome(lst) THEN
        LET s == Unwrap(st)
            ls == Unwrap(lst)
        IN \/ s.gateway_running # ls.gateway_running
           \/ s.active_profile_id # ls.active_profile_id
           \/ \E i \in 1..Len(s.profiles) : ProfileChanged(s.profiles[i], ls.profiles)
    ELSE IsSome(st) # IsSome(lst)

\* status_changed with the last arm of the match returning false
status_changed_absent_same(st, lst) ==
    IF IsSome(st) /\ IsSome(lst) THEN
        LET s == Unwrap(st)
            ls == Unwrap(lst)
        IN \/ s.gateway_running # ls.gateway_running
           \/ s.active_profile_id # ls.active_profile_id
           \/ Len(s.profiles) # Len(ls.profiles)
           \/ \E i \in 1..Len(s.profiles) : ProfileChanged(s.profiles[i], ls.profiles)
    ELSE FALSE

status_changed(st, lst) ==
    IF IsSome(st) /\ IsSome(lst) THEN
        LET s == Unwrap(st)
            ls == Unwrap(lst)
        IN \/ s.gateway_running # ls.gateway_running
           \/ s.active_profile_id # ls.active_profile_id
           \/ Len(s.profiles) # Len(ls.profiles)
           \/ \E i \in 1..Len(s.profiles) : ProfileChanged(s.profiles[i], ls.profiles)
    ELSE IF ~IsSome(st) /\ ~IsSome(lst) THEN FALSE
    ELSE TRUE

(***************************************************************************)
(* Bounds and the sets the inputs are drawn from                           *)
(***************************************************************************)
\* the restart commands the operator issues in one run
MaxRestarts == 2

Tasks == 1..MaxRestarts

\* the steps of one restart task, in program order
RestartSteps == <<"post", "sleep", "kill", "spawn", "reload">>

\* one snapshot the backend may report while the application runs
UpSnapshot ==
    AppStatus(TRUE, 6200, 6277, "a",
              <<ProfileStatus("a", TRUE, 1, Some(<<ToolStatus("t", "ok")>>))>>)

\* A response body is a JSON object, written as the record of the fields it
\* has; a body that is no JSON object has none of the fields asked for.
NotJson == [garbage |-> TRUE]

\* the body the backend sends for a snapshot: tool_status is left out when None
ProfileBody(p) ==
    IF IsSome(p.tool_status)
    THEN [id |-> p.id, running |-> p.running, active_tools |-> p.active_tools,
          tool_status |-> Unwrap(p.tool_status)]
    ELSE [id |-> p.id, running |-> p.running, active_tools |-> p.active_tools]

StatusBody(s) ==
    [gateway_running |-> s.gateway_running, control_port |-> s.control_port,
     mcp_port |-> s.mcp_port, active_profile_id |-> s.active_profile_id,
     profiles |-> [i \in 1..Len(s.profiles) |-> ProfileBody(s.profiles[i])]]

\* #[derive(Deserialize)]: every field but the Option is required
ProfileParses(o) ==
    /\ {"id", "running", "active_tools"} \subseteq DOMAIN o
    /\ "tool_status" \in DOMAIN o =>
          \A j \in 1..Len(o.tool_status) : {"name", "status"} \subseteq DOMAIN o.tool_status[j]

ParseProfile(o) ==
    ProfileStatus(o.id, o.running, o.active_tools,
                  IF "tool_status" \in DOMAIN o
                  THEN Some([j \in 1..Len(o.tool_status) |->
                               ToolStatus(o.tool_status[j].name, o.tool_status[j].status)])
                  ELSE None)

\* serde_json::from_str::<AppStatus>(&text) with Err turned to None: fields
\* of the wrong type are not modelled, missing ones are
from_str(body) ==
    IF /\ {"gateway_running", "control_port", "mcp_port", "active_profile_id",
           "profiles"} \subseteq DOMAIN body
       /\ \A i \in 1..Len(body.profiles) : ProfileParses(body.profiles[i])
    THEN Some(AppStatus(body.gateway_running, body.control_port, body.mcp_port,
                        body.active_profile_id,
                        [i \in 1..Len(body.profiles) |-> ParseProfile(body.profiles[i])]))
    ELSE None

\* what one GET /api/status can come to: whether send() returned Ok, whether
\* the HTTP status is a success, whether text() returned Ok, and the body
FetchOutcome(sent, success, text, body) ==
    [sent |-> sent, success |-> success, text |-> text, body |-> body]

\* no response: the connection is refused
NoFetch == FetchOutcome(FALSE, FALSE, FALSE, NotJson)

\* a body with a required field missing
PartialBody == [gateway_running |-> TRUE, mcp_port |-> 6277]

\* the outcomes of the polls of the running application: connection refused,
\* a 500 that carries a snapshot, an unreadable body, a partial body, a snapshot
FetchOutcomes ==
    {NoFetch,
     FetchOutcome(TRUE, FALSE, TRUE, StatusBody(UpSnapshot)),
     FetchOutcome(TRUE, TRUE, FALSE, StatusBody(UpSnapshot)),
     FetchOutcome(TRUE, TRUE, TRUE, PartialBody),
     FetchOutcome(TRUE, TRUE, TRUE, StatusBody(UpSnapshot))}

\* the match with the test of resp.status().is_success() left out
poll_status_any_code(outcome) ==
    IF outcome.sent
    THEN IF outcome.text THEN from_str(outcome.body) ELSE None
    ELSE None

\* the match on client.get(..).send().await: the parsed body, or None
poll_status(outcome) ==
    IF outcome.sent
    THEN IF outcome.success
         THEN IF outcome.text THEN from_str(outcome.body) ELSE None
         ELSE None
    ELSE None

(***************************************************************************)
(* spawn_backend and kill_backend                                          *)
(***************************************************************************)
\* ok: the sidecar binary exists and the OS spawns it.  The child gets the
\* next pid; child 0 stands for Err.
spawn_backend(ok, n, al) ==
    IF ok THEN [child |-> n + 1, alive |-> al \cup {n + 1}, spawned |-> n + 1]
    ELSE [child |-> 0, alive |-> al, spawned |-> n]

\* kill_backend reading the slot without take(): the handle stays
kill_backend_keeps(sl, al) == [slot |-> sl, alive |-> al \ {sl}]

\* take() the slot; a held child is killed and waited for.  The results of
\* kill() and wait() (an error when the child has already exited) are dropped.
kill_backend(sl, al) ==
    IF sl # 0 THEN [slot |-> 0, alive |-> al \ {sl}]
    ELSE [slot |-> sl, alive |-> al]

\* the store left out: the child is dropped
store_child_dropped(sl, child) == sl

\* *guard = Some(child)
store_child(sl, child) == child

(***************************************************************************)
(* The application                                                         *)
(***************************************************************************)
EvalIdle ==
    /\ argFetch = NoFetch
    /\ argLast = None /\ argStatus = None /\ evald = FALSE /\ resChanged = FALSE
    /\ resMenu = <<>> /\ resIcon = "" /\ resLastMenu = <<>> /\ resLastIcon = ""

Init ==
    /\ app = "setup"
    /\ slot = 0
    /\ alive = {}
    /\ spawned = 0
    /\ rpc = [t \in Tasks |-> "idle"]
    /\ rchild = [t \in Tasks |-> 0]
    /\ rlog = [t \in Tasks |-> <<>>]
    /\ rempty = [t \in Tasks |-> FALSE]
    /\ winShown = FALSE
    /\ lock = 0
    /\ ppc = "off"
    /\ status = None
    /\ last_status = None
    /\ menu = <<>>
    /\ icon = "none"
    /\ allAbsent = TRUE
    /\ EvalIdle

\* the async tasks run until the process has exited
TasksRun == app \in {"running", "exiting", "killed"}

\* setup returning the spawn's error with `?`: the application ends
Setup_aborts(ok) ==
    /\ app = "setup"
    /\ LET r == spawn_backend(ok, spawned, alive)
       IN /\ slot' = IF r.child # 0 THEN store_child(slot, r.child) ELSE slot
          /\ alive' = r.alive
          /\ spawned' = r.spawned
    /\ winShown' = ok
    /\ menu' = IF ok THEN build_tray_menu(None) ELSE menu
    /\ icon' = IF ok THEN "default" ELSE icon
    /\ ppc' = IF ok THEN "delay" ELSE ppc
    /\ app' = IF ok THEN "running" ELSE "exited"
    /\ UNCHANGED <<lock, rpc, rchild, rlog, rempty, status, last_status, allAbsent, evalVars>>

\* setup: spawn the backend, show the window, build the tray with the
\* initial menu and the default window icon, start the polling task
Setup(ok) ==
    /\ app = "setup"
    /\ LET r == spawn_backend(ok, spawned, alive)
       IN /\ slot' = IF r.child # 0 THEN store_child(slot, r.child) ELSE slot
          /\ alive' = r.alive
          /\ spawned' = r.spawned
    /\ winShown' = TRUE
    /\ menu' = build_tray_menu(None)
    /\ icon' = "default"
    /\ ppc' = "delay"
    /\ app' = "running"
    /\ UNCHANGED <<lock, rpc, rchild, rlog, rempty, status, last_status, allAbsent, evalVars>>

\* menu event "quit": app.exit(0)
Quit ==
    /\ app = "running"
    /\ app' = "exiting"
    /\ UNCHANGED <<lock, slot, alive, spawned, rpc, rchild, rlog, rempty, winShown,
                   pollVars, evalVars>>

\* menu event "show" and the tray's double click
Show ==
    /\ app = "running"
    /\ winShown' = TRUE
    /\ UNCHANGED <<lock, app, slot, alive, spawned, rpc, rchild, rlog, rempty,
                   pollVars, evalVars>>

\* menu event "restart": spawn one more restart task
Restart(t) ==
    /\ app = "running"
    /\ rpc[t] = "idle"
    /\ \A u \in Tasks : u < t => rpc[u] # "idle"
    /\ rpc' = [rpc EXCEPT ![t] = "post"]
    /\ rempty' = [rempty EXCEPT ![t] = (slot = 0)]
    /\ UNCHANGED <<lock, app, slot, alive, spawned, rchild, rlog, winShown,
                   pollVars, evalVars>>

\* the POST's error returned with `?`: the task ends there
RestartPost_aborts(t, ok) ==
    /\ TasksRun
    /\ rpc[t] = "post"
    /\ rpc' = [rpc EXCEPT ![t] = IF ok THEN "sleep" ELSE "done"]
    /\ rlog' = [rlog EXCEPT ![t] = Append(@, "post")]
    /\ rempty' = [rempty EXCEPT ![t] = IF ok THEN @ ELSE FALSE]
    /\ UNCHANGED <<lock, app, slot, alive, spawned, rchild, winShown,
                   pollVars, evalVars>>

\* the task locking the slot before its delay, the guard alive across it
RestartPost_locks(t, ok) ==
    /\ TasksRun
    /\ rpc[t] = "post"
    /\ lock = 0
    /\ lock' = t
    /\ rpc' = [rpc EXCEPT ![t] = "sleep"]
    /\ rlog' = [rlog EXCEPT ![t] = Append(@, "post")]
    /\ UNCHANGED <<app, slot, alive, spawned, rchild, rempty, winShown,
                   pollVars, evalVars>>

\* 1. POST /api/shutdown; the result (ok or not) is dropped
RestartPost(t, ok) ==
    /\ TasksRun
    /\ rpc[t] = "post"
    /\ rpc' = [rpc EXCEPT ![t] = "sleep"]
    /\ rlog' = [rlog EXCEPT ![t] = Append(@, "post")]
    /\ UNCHANGED <<lock, app, slot, alive, spawned, rchild, rempty, winShown,
                   pollVars, evalVars>>

\* 2. sleep(1000 ms)
RestartSleep(t) ==
    /\ TasksRun
    /\ rpc[t] = "sleep"
    /\ rpc' = [rpc EXCEPT ![t] = "kill"]
    /\ rlog' = [rlog EXCEPT ![t] = Append(@, "sleep")]
    /\ UNCHANGED <<lock, app, slot, alive, spawned, rchild, rempty, winShown,
                   pollVars, evalVars>>

\* 3. kill_backend()
RestartKill(t) ==
    /\ TasksRun
    /\ rpc[t] = "kill"
    /\ LET r == kill_backend(slot, alive)
       IN slot' = r.slot /\ alive' = r.alive
    /\ rpc' = [rpc EXCEPT ![t] = "spawn"]
    /\ rlog' = [rlog EXCEPT ![t] = Append(@, "kill")]
    /\ UNCHANGED <<lock, app, spawned, rchild, rempty, winShown, pollVars, evalVars>>

\* 4. spawn_backend(): Ok(child) goes on to the store, Err to the reload
RestartSpawn(t, ok) ==
    /\ TasksRun
    /\ rpc[t] = "spawn"
    /\ LET r == spawn_backend(ok, spawned, alive)
       IN /\ alive' = r.alive
          /\ spawned' = r.spawned
          /\ rchild' = [rchild EXCEPT ![t] = r.child]
          /\ rpc' = [rpc EXCEPT ![t] = IF r.child # 0 THEN "store" ELSE "reload"]
    /\ rlog' = [rlog EXCEPT ![t] = Append(@, "spawn")]
    /\ UNCHANGED <<lock, app, slot, rempty, winShown, pollVars, evalVars>>

\* 4. (Ok arm) lock the slot and put the child in it
RestartStore(t) ==
    /\ TasksRun
    /\ rpc[t] = "store"
    /\ slot' = store_child(slot, rchild[t])
    /\ rchild' = [rchild EXCEPT ![t] = 0]
    /\ rpc' = [rpc EXCEPT ![t] = "reload"]
    /\ UNCHANGED <<lock, app, alive, spawned, rlog, rempty, winShown, pollVars, evalVars>>

\* the reload also clearing the polling task's last_status
RestartReload_resets(t) ==
    /\ TasksRun
    /\ rpc[t] = "reload"
    /\ rpc' = [rpc EXCEPT ![t] = "done"]
    /\ rlog' = [rlog EXCEPT ![t] = Append(@, "reload")]
    /\ rempty' = [rempty EXCEPT ![t] = FALSE]
    /\ last_status' = None
    /\ UNCHANGED <<lock, app, slot, alive, spawned, rchild, winShown,
                   ppc, status, menu, icon, allAbsent, evalVars>>

\* 5. reload the main window
RestartReload(t) ==
    /\ TasksRun
    /\ rpc[t] = "reload"
    /\ rpc' = [rpc EXCEPT ![t] = "done"]
    /\ rlog' = [rlog EXCEPT ![t] = Append(@, "reload")]
    /\ rempty' = [rempty EXCEPT ![t] = FALSE]
    /\ UNCHANGED <<lock, app, slot, alive, spawned, rchild, winShown,
                   pollVars, evalVars>>

\* RunEvent::Exit: kill_backend()
ExitKill ==
    /\ app = "exiting"
    /\ LET r == kill_backend(slot, alive)
       IN slot' = r.slot /\ alive' = r.alive
    /\ app' = "killed"
    /\ UNCHANGED <<lock, spawned, rpc, rchild, rlog, rempty, winShown, pollVars, evalVars>>

\* the process exits: its tasks, its memory, its window and its tray end
\* with it, its children do not
ProcessExit ==
    /\ app = "killed"
    /\ app' = "exited"
    /\ slot' = 0
    /\ rpc' = [t \in Tasks |-> "ended"]
    /\ rchild' = [t \in Tasks |-> 0]
    /\ rlog' = [t \in Tasks |-> <<>>]
    /\ rempty' = [t \in Tasks |-> FALSE]
    /\ winShown' = FALSE
    /\ lock' = 0
    /\ ppc' = "off"
    /\ status' = None
    /\ last_status' = None
    /\ menu' = <<>>
    /\ icon' = "none"
    /\ UNCHANGED <<alive, spawned, allAbsent, evalVars>>

\* a backend child exits by itself (a crash, or its answer to /api/shutdown)
ChildExit(c) ==
    /\ app # "exited"
    /\ c \in alive
    /\ alive' = alive \ {c}
    /\ UNCHANGED <<lock, app, slot, spawned, rpc, rchild, rlog, rempty, winShown,
                   pollVars, evalVars>>

(***************************************************************************)
(* The polling task                                                        *)
(***************************************************************************)
\* sleep(2 s) before the first fetch
PollDelay ==
    /\ TasksRun
    /\ ppc = "delay"
    /\ ppc' = "fetch"
    /\ UNCHANGED <<appVars, status, last_status, menu, icon, allAbsent, evalVars>>

\* one GET /api/status
PollFetch(outcome) ==
    /\ TasksRun
    /\ ppc = "fetch"
    /\ status' = poll_status(outcome)
    /\ allAbsent' = (allAbsent /\ ~IsSome(poll_status(outcome)))
    /\ ppc' = "apply"
    /\ UNCHANGED <<appVars, last_status, menu, icon, evalVars>>

\* the tray after a changed verdict: the new menu unless build_tray_menu
\* fails (menuOk), the new icon unless no icon file is found or loads (iconOk)
UpdateTray(st, menuOk, iconOk) ==
    /\ menu' = IF menuOk THEN build_tray_menu(st) ELSE menu
    /\ icon' = IF iconOk THEN icon_name(st) ELSE icon

\* a failed update of the tray returned with `?`: the polling task ends
PollApply_breaks ==
    /\ TasksRun
    /\ ppc = "apply"
    /\ IF status_changed(status, last_status)
       THEN /\ last_status' = status
            /\ \E menuOk \in BOOLEAN, iconOk \in BOOLEAN :
                  /\ UpdateTray(status, menuOk, iconOk)
                  /\ ppc' = IF menuOk /\ iconOk THEN "sleep" ELSE "off"
       ELSE /\ UNCHANGED <<last_status, menu, icon>>
            /\ ppc' = "sleep"
    /\ UNCHANGED <<appVars, status, allAbsent, evalVars>>

\* the update made whatever status_changed returns
PollApply_always ==
    /\ TasksRun
    /\ ppc = "apply"
    /\ last_status' = status
    /\ \E menuOk \in BOOLEAN, iconOk \in BOOLEAN : UpdateTray(status, menuOk, iconOk)
    /\ ppc' = "sleep"
    /\ UNCHANGED <<appVars, status, allAbsent, evalVars>>

\* status_changed and, when it is true, the update of last_status and of
\* the tray; then on to the sleep
PollApply ==
    /\ TasksRun
    /\ ppc = "apply"
    /\ IF status_changed(status, last_status)
       THEN /\ last_status' = status
            /\ \E menuOk \in BOOLEAN, iconOk \in BOOLEAN : UpdateTray(status, menuOk, iconOk)
       ELSE UNCHANGED <<last_status, menu, icon>>
    /\ ppc' = "sleep"
    /\ UNCHANGED <<appVars, status, allAbsent, evalVars>>

\* sleep(5 s)
PollSleep ==
    /\ TasksRun
    /\ ppc = "sleep"
    /\ ppc' = "fetch"
    /\ UNCHANGED <<appVars, status, last_status, menu, icon, allAbsent, evalVars>>

Next ==
    \/ \E ok \in BOOLEAN : Setup(ok)
    \/ Quit
    \/ Show
    \/ \E t \in Tasks : Restart(t)
    \/ \E t \in Tasks, ok \in BOOLEAN : RestartPost(t, ok)
    \/ \E t \in Tasks : RestartSleep(t)
    \/ \E t \in Tasks : RestartKill(t)
    \/ \E t \in Tasks, ok \in BOOLEAN : RestartSpawn(t, ok)
    \/ \E t \in Tasks : RestartStore(t)
    \/ \E t \in Tasks : RestartReload(t)
    \/ ExitKill
    \/ ProcessExit
    \/ \E c \in alive : ChildExit(c)
    \/ PollDelay
    \/ \E outcome \in FetchOutcomes : PollFetch(outcome)
    \/ PollApply
    \/ PollSleep

Spec == Init /\ [][Next]_vars

\* The application without restart commands, under fair scheduling
\* (SpecLive).  The restart tasks and the polling task share no variable, so
\* the progress of the polling loop is that of this application.
NextLive ==
    \/ \E ok \in BOOLEAN : Setup(ok)
    \/ Quit
    \/ Show
    \/ ExitKill
    \/ ProcessExit
    \/ \E c \in alive : ChildExit(c)
    \/ PollDelay
    \/ \E outcome \in FetchOutcomes : PollFetch(outcome)
    \/ PollApply
    \/ PollSleep

\* The event loop runs setup and delivers the exit event, and the async
\* runtime runs the polling task whenever it can take a step; a GET always
\* returns, with a response or an error.  The operator's commands and the
\* backend's own exit are under no obligation.
Fairness ==
    /\ WF_vars(\E ok \in BOOLEAN : Setup(ok))
    /\ WF_vars(ExitKill)
    /\ WF_vars(ProcessExit)
    /\ WF_vars(PollDelay)
    /\ WF_vars(\E outcome \in FetchOutcomes : PollFetch(outcome))
    /\ WF_vars(PollApply)
    /\ WF_vars(PollSleep)

SpecLive == Init /\ [][NextLive]_vars /\ Fairness

(***************************************************************************)
(* The application with the lock of BACKEND_PROCESS (SpecLock): Spec takes *)
(* each locked section as one step; here lock() and the section with the   *)
(* drop of the guard are two steps, and lock() waits for a free lock.      *)
(***************************************************************************)
\* 3. kill_backend(): BACKEND_PROCESS.lock()
KillLock(t) ==
    /\ TasksRun
    /\ rpc[t] = "kill"
    /\ lock = 0
    /\ lock' = t
    /\ rpc' = [rpc EXCEPT ![t] = "killing"]
    /\ UNCHANGED <<app, slot, alive, spawned, rchild, rlog, rempty, winShown,
                   pollVars, evalVars>>

\* 3. kill_backend(): take(), kill(), wait(); the guard is dropped
KillUnlock(t) ==
    /\ TasksRun
    /\ rpc[t] = "killing"
    /\ LET r == kill_backend(slot, alive)
       IN slot' = r.slot /\ alive' = r.alive
    /\ lock' = 0
    /\ rpc' = [rpc EXCEPT ![t] = "spawn"]
    /\ rlog' = [rlog EXCEPT ![t] = Append(@, "kill")]
    /\ UNCHANGED <<app, spawned, rchild, rempty, winShown, pollVars, evalVars>>

\* 4. (Ok arm) BACKEND_PROCESS.lock()
StoreLock(t) ==
    /\ TasksRun
    /\ rpc[t] = "store"
    /\ lock = 0
    /\ lock' = t
    /\ rpc' = [rpc EXCEPT ![t] = "storing"]
    /\ UNCHANGED <<app, slot, alive, spawned, rchild, rlog, rempty, winShown,
                   pollVars, evalVars>>

\* 4. (Ok arm) *guard = Some(child); the guard is dropped
StoreUnlock(t) ==
    /\ TasksRun
    /\ rpc[t] = "storing"
    /\ slot' = store_child(slot, rchild[t])
    /\ rchild' = [rchild EXCEPT ![t] = 0]
    /\ lock' = 0
    /\ rpc' = [rpc EXCEPT ![t] = "reload"]
    /\ UNCHANGED <<app, alive, spawned, rlog, rempty, winShown, pollVars, evalVars>>

\* RunEvent::Exit: kill_backend(), whose lock() waits for a free lock; the
\* handler runs on the main thread and does not suspend
ExitKillLocked == lock = 0 /\ ExitKill

\* The polling task never touches the lock, whatever it fetches: its GETs
\* meet a refused connection here.
NextLock ==
    \/ \E ok \in BOOLEAN : Setup(ok)
    \/ Quit
    \/ Show
    \/ \E t \in Tasks : Restart(t)
    \/ \E t \in Tasks, ok \in BOOLEAN : RestartPost(t, ok)
    \/ \E t \in Tasks : RestartSleep(t)
    \/ \E t \in Tasks : KillLock(t)
    \/ \E t \in Tasks : KillUnlock(t)
    \/ \E t \in Tasks, ok \in BOOLEAN : RestartSpawn(t, ok)
    \/ \E t \in Tasks : StoreLock(t)
    \/ \E t \in Tasks : StoreUnlock(t)
    \/ \E t \in Tasks : RestartReload(t)
    \/ ExitKillLocked
    \/ ProcessExit
    \/ \E c \in alive : ChildExit(c)
    \/ PollDelay
    \/ \E outcome \in {NoFetch} : PollFetch(outcome)
    \/ PollApply
    \/ PollSleep

SpecLock == Init /\ [][NextLock]_vars

(***************************************************************************)
(* status_changed, build_tray_menu and the icon selection on drawn inputs  *)
(***************************************************************************)
\* the most profiles of a drawn snapshot
MaxProfiles == 2
\* the most tool entries of a drawn snapshot, over all its profiles
MaxTools == 1

ProfileIds == {"a", "b"}
ToolStatuses == {"ok", "idle", "warning", "failed"}
ToolNames == <<"a", "b", "c", "d", "e", "f">>

\* the tool lists of k entries; the k-th tool is named ToolNames[k]
ToolSeqs(k) ==
    {[i \in 1..k |-> ToolStatus(ToolNames[i], f[i])] : f \in [1..k -> ToolStatuses]}

\* the tool_status values with k tool entries
ToolOptions(k) ==
    IF k = 0 THEN {None, Some(<<>>)} ELSE {Some(ts) : ts \in ToolSeqs(k)}

ProfilesWith(k) ==
    {ProfileStatus(id, running, k, to) :
        id \in ProfileIds, running \in BOOLEAN, to \in ToolOptions(k)}

\* the lists of n profiles that hold at most `budget` tool entries together
RECURSIVE ProfileSeqs(_, _)
ProfileSeqs(n, budget) ==
    IF n = 0 THEN {<<>>}
    ELSE UNION {LET rests == ProfileSeqs(n - 1, budget - k)
                IN {<<p>> \o rest : p \in ProfilesWith(k), rest \in rests} :
                k \in 0..budget}

\* gateway_running and active_profile_id of the drawn snapshots
SnapshotHeaders == {<<TRUE, "a">>, <<FALSE, "a">>, <<TRUE, "">>}

\* the snapshots of at most np profiles and nt tool entries
Snapshots(np, nt) ==
    {AppStatus(h[1], 6200, 6277, h[2], ps) :
        h \in SnapshotHeaders,
        ps \in UNION {ProfileSeqs(n, nt) : n \in 0..np}}

\* for the pairs: a profile and the profiles that differ from it in one field
PairProfile == ProfileStatus("a", TRUE, 1, Some(<<ToolStatus("t", "ok")>>))

PairProfiles ==
    {PairProfile,
     [PairProfile EXCEPT !.id = "b"],
     [PairProfile EXCEPT !.running = FALSE],
     [PairProfile EXCEPT !.active_tools = 2],
     [PairProfile EXCEPT !.tool_status =
         Some(<<ToolStatus("a", "ok"), ToolStatus("b", "warning")>>)]}

PairProfileSeqs(np) == UNION {[1..n -> PairProfiles] : n \in 0..np}

\* a snapshot without its profiles, and those that differ from it in one field
PairHeader == AppStatus(TRUE, 6200, 6277, "a", <<>>)

PairHeaders ==
    {PairHeader,
     [PairHeader EXCEPT !.gateway_running = FALSE],
     [PairHeader EXCEPT !.control_port = 6201],
     [PairHeader EXCEPT !.mcp_port = 6278],
     [PairHeader EXCEPT !.active_profile_id = "b"]}

\* absent, and the snapshots of at most np profiles
PairStatuses(np) ==
    {None} \cup {Some([h EXCEPT !.profiles = ps]) :
                    h \in PairHeaders, ps \in PairProfileSeqs(np)}

\* the application before setup, which these specifications leave alone
AppIdle ==
    /\ app = "setup" /\ slot = 0 /\ alive = {} /\ spawned = 0
    /\ rpc = [t \in Tasks |-> "idle"] /\ rchild = [t \in Tasks |-> 0]
    /\ rlog = [t \in Tasks |-> <<>>] /\ rempty = [t \in Tasks |-> FALSE]
    /\ winShown = FALSE /\ lock = 0
    /\ ppc = "off" /\ status = None /\ last_status = None
    /\ menu = <<>> /\ icon = "none" /\ allAbsent = TRUE

\* the results before the functions are applied
EvalBlank ==
    /\ evald = FALSE /\ resChanged = FALSE
    /\ resMenu = <<>> /\ resIcon = "" /\ resLastMenu = <<>> /\ resLastIcon = ""

\* one poll cycle's computations on (last_status, status) = (lst, st): the
\* verdict of status_changed, and menu and icon of both
Evaluate(lst, st) ==
    /\ ~evald
    /\ evald' = TRUE
    /\ resChanged' = status_changed(st, lst)
    /\ resMenu' = build_tray_menu(st)
    /\ resIcon' = icon_name(st)
    /\ resLastMenu' = build_tray_menu(lst)
    /\ resLastIcon' = icon_name(lst)
    /\ argStatus' = st
    /\ UNCHANGED <<appVars, pollVars, argFetch, argLast>>

NextEval == Evaluate(argLast, argStatus)

\* any last_status, any status
InitDiff ==
    /\ AppIdle /\ EvalBlank /\ argFetch = NoFetch
    /\ argLast \in PairStatuses(MaxProfiles)
    /\ argStatus \in PairStatuses(MaxProfiles)

SpecDiff == InitDiff /\ [][NextEval]_vars

\* a poll that returns what the last accepted one returned
InitSnapshot ==
    /\ AppIdle /\ EvalBlank /\ argFetch = NoFetch
    /\ argStatus \in {None} \cup {Some(s) : s \in Snapshots(MaxProfiles, MaxTools)}
    /\ argLast = argStatus

SpecSnapshot == InitSnapshot /\ [][NextEval]_vars

\* tool_status values for the menus: none, empty, and lists of one and two
\* entries that carry every glyph
MenuToolOptions ==
    {None, Some(<<>>),
     Some(<<ToolStatus("a", "ok"), ToolStatus("b", "warning")>>),
     Some(<<ToolStatus("c", "idle"), ToolStatus("d", "failed")>>),
     Some(<<ToolStatus("e", "")>>)}

MenuProfiles ==
    {ProfileStatus(id, running, Len(UnwrapOrDefault(to)), to) :
        id \in ProfileIds, running \in BOOLEAN, to \in MenuToolOptions}

\* the snapshots of at most np of these profiles
MenuSnapshots(np) ==
    {AppStatus(h[1], 6200, 6277, h[2], ps) :
        h \in SnapshotHeaders,
        ps \in UNION {[1..n -> MenuProfiles] : n \in 0..np}}

\* the menu and the icon of one present status
InitMenu ==
    /\ AppIdle /\ EvalBlank /\ argFetch = NoFetch
    /\ argStatus \in {Some(s) : s \in MenuSnapshots(MaxProfiles)}
    /\ argLast = argStatus

SpecMenu == InitMenu /\ [][NextEval]_vars

\* bodies that lack a field AppStatus, ProfileStatus or ToolStatus requires
IncompleteBodies ==
    {NotJson,
     PartialBody,
     [StatusBody(UpSnapshot) EXCEPT !.profiles = <<[running |-> TRUE, active_tools |-> 1]>>],
     [StatusBody(UpSnapshot) EXCEPT !.profiles[1].tool_status = <<[name |-> "t"]>>]}

\* bodies of whole snapshots, with and without the optional tool_status
CompleteBodies ==
    {StatusBody(UpSnapshot),
     StatusBody(AppStatus(TRUE, 6200, 6277, "a", <<ProfileStatus("a", TRUE, 0, None)>>)),
     StatusBody(AppStatus(FALSE, 6200, 6277, "", <<>>))}

\* every outcome of one GET: no response, or a response with a status code,
\* a readable or unreadable body, and the body
AllFetchOutcomes ==
    {NoFetch} \cup
    {FetchOutcome(TRUE, success, text, body) :
        success \in BOOLEAN, text \in BOOLEAN, body \in IncompleteBodies \cup CompleteBodies}

\* the last accepted results the poll meets
FetchLasts ==
    {None, Some(UpSnapshot),
     Some(AppStatus(FALSE, 6200, 6277, "", <<>>)),
     Some(AppStatus(TRUE, 6200, 6277, "a", <<ProfileStatus("a", TRUE, 0, None)>>))}

\* one poll cycle on a drawn outcome and a drawn last_status
InitFetch ==
    /\ AppIdle /\ EvalBlank
    /\ argFetch \in AllFetchOutcomes
    /\ argLast \in FetchLasts
    /\ argStatus = None

NextFetch == Evaluate(argLast, poll_status(argFetch))

SpecFetch == InitFetch /\ [][NextFetch]_vars

(***************************************************************************)
(* The claims: the supervisor (Spec)                                       *)
(***************************************************************************)
\* C1: at most one backend child spawned by the application is alive at a
\* time, under every interleaving of setup, restart tasks, polls and quit.
C1_AtMostOneChild == Cardinality(alive) <= 1

\* C2: once the application has exited, no backend child it spawned is alive.
C2_NoChildAfterExit == app = "exited" => alive = {}

\* a restart task has finished its spawn step (and its store, if any)
SpawnStepDone(t) == rpc[t] = "reload"

\* C3 as claimed: a restart started on an empty slot has, once its spawn
\* step is done, exactly one live child, held by the slot.
C3_EmptySlotRestartLeavesOneChild ==
    \A t \in Tasks : (SpawnStepDone(t) /\ rempty[t]) => (slot # 0 /\ alive = {slot})

\* C3 as amended: a restart started on an empty slot always goes from its
\* kill step to its spawn step; a spawn that succeeds creates one new live
\* child, which the task then puts in the slot; a spawn that fails creates
\* no child and leaves the slot as it is.
C3_EmptySlotRestartSpawns ==
    [][\A t \in Tasks : rempty[t] =>
          /\ (rpc[t] = "kill" /\ rpc'[t] \notin {"kill", "ended"}) => rpc'[t] = "spawn"
          /\ (rpc[t] = "spawn" /\ rpc'[t] \notin {"spawn", "ended"}) =>
                \/ /\ rpc'[t] = "store"
                   /\ rchild'[t] # 0 /\ rchild'[t] \notin alive
                   /\ alive' = alive \cup {rchild'[t]}
                   /\ slot' = slot
                \/ /\ rpc'[t] = "reload"
                   /\ rchild'[t] = 0 /\ alive' = alive /\ slot' = slot
          /\ (rpc[t] = "store" /\ rpc'[t] \notin {"store", "ended"}) =>
                /\ rpc'[t] = "reload"
                /\ slot' = rchild[t]
                /\ alive' = alive
      ]_vars

\* the only restart so far started on an empty slot and has stored its child
C3_Witness ==
    /\ SpawnStepDone(1) /\ rempty[1]
    /\ \A t \in Tasks : t # 1 => rpc[t] = "idle"
    /\ slot # 0 /\ alive = {slot}

\* this step is a kill_backend() call: a restart task's, or the exit handler's
KillStep ==
    \/ \E t \in Tasks : rpc[t] = "kill" /\ rpc'[t] = "spawn"
    \/ app = "exiting" /\ app' = "killed"

\* C4: kill() leaves the slot empty and the held child, if any, dead, whether
\* or not that child had already exited; on an empty slot it changes nothing;
\* a second kill() right after changes nothing.
C4_KillIdempotent ==
    [][KillStep =>
          /\ slot' = 0
          /\ alive' = alive \ {slot}
          /\ (slot = 0 => alive' = alive)
          /\ kill_backend(slot', alive') = [slot |-> slot', alive |-> alive']
      ]_vars

\* two restart tasks have both run kill_backend() and nothing was stored in
\* between: the first call killed the child of setup, the second found the
\* slot empty
C4_Witness ==
    /\ rpc[1] = "spawn" /\ rpc[2] = "spawn"
    /\ ~rempty[1]
    /\ spawned = 1 /\ slot = 0 /\ alive = {}

\* the number of steps a restart task at pc has performed
StepsDoneAt(pc) ==
    CASE pc \in {"idle", "post"}    -> 0
      [] pc = "sleep"               -> 1
      [] pc = "kill"                -> 2
      [] pc = "spawn"               -> 3
      [] pc \in {"store", "reload"} -> 4
      [] pc = "done"                -> 5

\* C5: a restart task performs POST, delay, kill, spawn, reload in this
\* order, none skipped and none repeated, whatever the POST and the spawn
\* returned: a task that is done has performed all five.
C5_RestartOrder ==
    \A t \in Tasks : rpc[t] # "ended" =>
        rlog[t] = SubSeq(RestartSteps, 1, StepsDoneAt(rpc[t]))

\* a restart whose spawn failed (no child was ever created) is done, with
\* the reload issued
C5_Witness ==
    /\ rpc[1] = "done"
    /\ rlog[1] = RestartSteps
    /\ spawned = 0

\* C8: when every poll so far was absent and a poll cycle has completed, the
\* tray shows the error icon and the "connecting" menu.
C8_AbsentShowsError ==
    (ppc = "sleep" /\ allAbsent) =>
        (icon = "tray-error.png" /\ menu = build_tray_menu(None))

(***************************************************************************)
(* The claims: status_changed and the rendering (SpecDiff, SpecSnapshot)   *)
(***************************************************************************)
\* some profile differs, in active_tools or tool_status, from the first
\* profile of the list that has its id
DisagreesWithFirst(ps) ==
    \E i \in 1..Len(ps), j \in 1..Len(ps) :
        /\ j < i
        /\ ps[j].id = ps[i].id
        /\ \A k \in 1..(j - 1) : ps[k].id # ps[i].id
        /\ \/ ps[j].active_tools # ps[i].active_tools
           \/ ps[j].tool_status # ps[i].tool_status

\* C6 as claimed: a status compared with itself is unchanged, whatever its
\* profile ids.
C6_SelfDiffUnchanged == (evald /\ argLast = argStatus) => ~resChanged

\* C6 as amended: a status compared with itself is unchanged exactly when it
\* is absent or each of its profiles has the active_tools and tool_status of
\* the first profile with the same id, as it does when the ids are distinct.
C6_SelfDiffUnchangedIfConsistent ==
    (evald /\ argLast = argStatus) =>
        (resChanged <=> (IsSome(argStatus) /\ DisagreesWithFirst(Unwrap(argStatus).profiles)))

\* two profiles with one id that differ only in `running`: unchanged
C6_Witness ==
    /\ evald /\ argLast = argStatus /\ IsSome(argStatus)
    /\ LET ps == Unwrap(argStatus).profiles
       IN /\ Len(ps) = 2
          /\ ps[1].id = ps[2].id
          /\ ps[1].running # ps[2].running
          /\ ps[1].active_tools = ps[2].active_tools
          /\ ps[1].tool_status = ps[2].tool_status
    /\ ~resChanged

\* C7: absent against absent is unchanged; absent against present, either
\* way round, is changed.
C7_AbsentCases ==
    evald =>
        /\ (~IsSome(argLast) /\ ~IsSome(argStatus)) => ~resChanged
        /\ (IsSome(argLast) # IsSome(argStatus)) => resChanged

\* a present status was followed by an absent one
C7_Witness ==
    /\ evald /\ IsSome(argLast) /\ ~IsSome(argStatus) /\ resChanged
    /\ Unwrap(argLast).profiles # <<>>

MenuIds(m) == {m[i].id : i \in 1..Len(m)}

AllTools(ps) ==
    UNION {{UnwrapOrDefault(ps[i].tool_status)[j] :
               j \in 1..Len(UnwrapOrDefault(ps[i].tool_status))} : i \in 1..Len(ps)}

\* C10: the icon is the error icon for an absent status and for a gateway
\* that is not running, else the warning icon when a tool of any profile,
\* running or not, has a status other than "ok", else the ok icon.
C10_IconClass ==
    evald =>
        resIcon =
            IF ~IsSome(argStatus) THEN "tray-error.png"
            ELSE IF ~Unwrap(argStatus).gateway_running THEN "tray-error.png"
            ELSE IF \E tool \in AllTools(Unwrap(argStatus).profiles) : tool.status # "ok"
                 THEN "tray-warning.png"
            ELSE "tray-ok.png"

\* an idle tool in a profile that is not running gives the warning icon
C10_Witness ==
    /\ evald /\ IsSome(argStatus)
    /\ Unwrap(argStatus).gateway_running
    /\ LET ps == Unwrap(argStatus).profiles
       IN /\ \E i \in 1..Len(ps) :
                /\ ~ps[i].running
                /\ \E tool \in AllTools(<<ps[i]>>) : tool.status = "idle"
          /\ \A tool \in AllTools(ps) : tool.status \in {"ok", "idle"}
    /\ resIcon = "tray-warning.png"

(***************************************************************************)
(* The claims: the lines of the menu (SpecMenu)                            *)
(***************************************************************************)
\* the profile contributes lines: it runs and has a tool entry
Contributes(p) == p.running /\ UnwrapOrDefault(p.tool_status) # <<>>

\* the lines of profile p: its label and one per tool, or none
LinesOf(p) == IF Contributes(p) THEN 1 + Len(UnwrapOrDefault(p.tool_status)) ELSE 0

\* the lines of the first i profiles
RECURSIVE LinesUpTo(_, _)
LinesUpTo(ps, i) == IF i = 0 THEN 0 ELSE LinesUpTo(ps, i - 1) + LinesOf(ps[i])

\* the glyph the claim fixes for a tool status
GlyphIs(st, g) ==
    /\ st = "ok" => g = "green"
    /\ st = "idle" => g = "white"
    /\ st = "warning" => g = "yellow"
    /\ st \notin {"ok", "idle", "warning"} => g = "red"

\* the menu between its head (status line, active profile line) and its
\* tail (separator, restart, separator, show, quit)
MenuBody(m, s) ==
    SubSeq(m, (IF s.active_profile_id # "" THEN 4 ELSE 2) + 1, Len(m) - 5)

\* C11: in a present snapshot's menu each profile that runs and has a tool
\* entry gives one disabled label line followed by one enabled line per tool,
\* in order, with the glyph of the tool's status; the other profiles give no
\* line; the disabled "no tools" line is there exactly when no profile gave
\* a line.
C11_ProfileAndToolLines ==
    (evald /\ IsSome(argStatus)) =>
        LET s == Unwrap(argStatus)
            ps == s.profiles
            body == MenuBody(resMenu, s)
            total == LinesUpTo(ps, Len(ps))
            NoTools == Item(<<"no_tools">>, <<"No tools enabled">>, FALSE)
        IN /\ (total = 0) <=> (body = <<NoTools>>)
           /\ (total = 0) <=> (NoTools \in {resMenu[k] : k \in 1..Len(resMenu)})
           /\ total > 0 => Len(body) = total
           /\ \A i \in 1..Len(ps) : Contributes(ps[i]) =>
                LET at == LinesUpTo(ps, i - 1) + 1
                    tools == Unwrap(ps[i].tool_status)
                IN /\ body[at].id = <<"profile_", ps[i].id>>
                   /\ ~body[at].enabled
                   /\ \A j \in 1..Len(tools) :
                        /\ body[at + j].id = <<"tool_", tools[j].name>>
                        /\ body[at + j].enabled
                        /\ body[at + j].text[4] = tools[j].name
                        /\ GlyphIs(tools[j].status, body[at + j].text[2])

\* one running profile with the tools [a:ok, b:warning]: one label line and
\* two tool lines, with the ok and the warning glyph
C11_Witness ==
    /\ evald /\ IsSome(argStatus)
    /\ Unwrap(argStatus).profiles =
          <<ProfileStatus("a", TRUE, 2,
                Some(<<ToolStatus("a", "ok"), ToolStatus("b", "warning")>>))>>
    /\ LET body == MenuBody(resMenu, Unwrap(argStatus))
       IN /\ Len(body) = 3
          /\ body[1].id = <<"profile_", "a">>
          /\ body[2].text[2] = "green"
          /\ body[3].text[2] = "yellow"

(***************************************************************************)
(* The claims: the fetch of one poll cycle (SpecFetch)                     *)
(***************************************************************************)
\* the GET failed: no response, a non-success status, an unreadable body, or
\* a body that is not a whole snapshot
FetchFailed(o) ==
    \/ ~o.sent
    \/ ~o.success
    \/ ~o.text
    \/ o.body \in IncompleteBodies

\* last_status at the end of the cycle
LastAccepted == IF resChanged THEN argStatus ELSE argLast

\* C12: a GET that fails in transport, returns a non-success status, or
\* returns an unreadable or incomplete body yields absent, with the verdict,
\* the last accepted value, the menu and the icon of a refused connection;
\* any other GET yields the whole snapshot of its body, never a part of one.
C12_FailuresAreAbsent ==
    evald =>
        /\ FetchFailed(argFetch) =>
              /\ argStatus = None
              /\ resChanged = status_changed(poll_status(NoFetch), argLast)
              /\ resChanged = IsSome(argLast)
              /\ LastAccepted = None
              /\ resMenu = build_tray_menu(poll_status(NoFetch))
              /\ resIcon = icon_name(poll_status(NoFetch))
        /\ ~FetchFailed(argFetch) =>
              /\ IsSome(argStatus)
              /\ StatusBody(Unwrap(argStatus)) = argFetch.body
        /\ IsSome(argStatus) =>
              /\ DOMAIN Unwrap(argStatus) =
                    {"gateway_running", "control_port", "mcp_port",
                     "active_profile_id", "profiles"}
              /\ \A i \in 1..Len(Unwrap(argStatus).profiles) :
                    DOMAIN Unwrap(argStatus).profiles[i] =
                        {"id", "running", "active_tools", "tool_status"}

\* a 500 that carries a whole snapshot, after an accepted present result
C12_Witness ==
    /\ evald
    /\ argFetch = FetchOutcome(TRUE, FALSE, TRUE, StatusBody(UpSnapshot))
    /\ argLast = Some(UpSnapshot)
    /\ argStatus = None /\ resChanged
    /\ resIcon = "tray-error.png"

(***************************************************************************)
(* The claims: the lock of the process slot (SpecLock)                     *)
(***************************************************************************)
\* restart task t is at an await: the shutdown POST or the grace delay
TaskSuspended(t) == rpc[t] \in {"post", "sleep"}

\* the polling task is at an await: a delay or the status GET
PollerSuspended == ppc \in {"delay", "fetch", "sleep"}

\* C13: no task holds the lock of the process slot at a suspension point: a
\* restart task awaiting its POST or its delay does not hold it, the lock is
\* held only by a restart task inside its kill or its store, and so never by
\* the polling task, whose steps are all awaits or lock-free.
C13_NoLockAcrossAwait ==
    /\ \A t \in Tasks : TaskSuspended(t) => lock # t
    /\ lock # 0 => (lock \in Tasks /\ rpc[lock] \in {"killing", "storing"})

\* one restart task is inside kill_backend() with the lock while another
\* awaits its delay and the polling task awaits its GET
C13_Witness ==
    /\ lock = 1 /\ rpc[1] = "killing"
    /\ TaskSuspended(2)
    /\ ppc = "fetch"

(***************************************************************************)
(* The claims: spawn failures (Spec)                                       *)
(***************************************************************************)
\* a step of the polling task
PollStep ==
    \/ PollDelay
    \/ \E outcome \in FetchOutcomes : PollFetch(outcome)
    \/ PollApply
    \/ PollSleep

\* the running application takes the operator's commands and its polling
\* task has a next step
StillServing ==
    /\ ENABLED Quit
    /\ ENABLED Show
    /\ (\E t \in Tasks : rpc[t] = "idle") => ENABLED (\E t \in Tasks : Restart(t))
    /\ ppc \in {"delay", "fetch", "apply", "sleep"}
    /\ ENABLED PollStep

C15_EventuallyShown ==
    <>[](status = Some(UpSnapshot)) =>
        <>[](/\ menu = build_tray_menu(Some(UpSnapshot))
             /\ icon = icon_name(Some(UpSnapshot)))

(***************************************************************************)
(* The claims: status_changed on two present snapshots (SpecDiff)          *)
(***************************************************************************)
\* profile p has a counterpart among olds: the first old profile with its id
\* has its active_tools and its tool_status
HasEqualCounterpart(p, olds) ==
    \E j \in 1..Len(olds) :
        /\ olds[j].id = p.id
        /\ \A k \in 1..(j - 1) : olds[k].id # p.id
        /\ olds[j].active_tools = p.active_tools
        /\ olds[j].tool_status = p.tool_status

\* some old profile has an id that no new profile has
ProfileDropped(olds, news) ==
    \E j \in 1..Len(olds) : \A i \in 1..Len(news) : news[i].id # olds[j].id

\* both present, gateway_running and active_profile_id equal, every new
\* profile with an equal counterpart, and an old profile gone
DroppedOnly ==
    /\ IsSome(argLast) /\ IsSome(argStatus)
    /\ Unwrap(argStatus).gateway_running = Unwrap(argLast).gateway_running
    /\ Unwrap(argStatus).active_profile_id = Unwrap(argLast).active_profile_id
    /\ \A i \in 1..Len(Unwrap(argStatus).profiles) :
          HasEqualCounterpart(Unwrap(argStatus).profiles[i], Unwrap(argLast).profiles)
    /\ ProfileDropped(Unwrap(argLast).profiles, Unwrap(argStatus).profiles)

\* C16 as claimed: a profile that disappears, with nothing else changed, is
\* reported unchanged.
C16_DroppedProfileUnchanged == (evald /\ DroppedOnly) => ~resChanged

\* C16 as amended: a profile that disappears, with nothing else changed, is
\* reported changed exactly when the two snapshots differ in their number of
\* profiles; it goes unnoticed only when the new snapshot has as many
\* profiles as the old one.
C16_DroppedProfileSeenByCount ==
    (evald /\ DroppedOnly) =>
        (resChanged <=> Len(Unwrap(argStatus).profiles) # Len(Unwrap(argLast).profiles))

\* the old snapshot has profiles a and b, the new one has a twice: unchanged
C16_Witness ==
    /\ evald /\ DroppedOnly
    /\ Len(Unwrap(argStatus).profiles) = Len(Unwrap(argLast).profiles)
    /\ ~resChanged

\* the first old profile with the id of p, if any, differs from p in
\* active_tools or tool_status
FirstCounterpartDiffers(p, olds) ==
    \E j \in 1..Len(olds) :
        /\ olds[j].id = p.id
        /\ \A k \in 1..(j - 1) : olds[k].id # p.id
        /\ \/ olds[j].active_tools # p.active_tools
           \/ olds[j].tool_status # p.tool_status

\* the snapshot without the fields the comparison does not read
Compared(s) ==
    [gateway_running |-> s.gateway_running,
     active_profile_id |-> s.active_profile_id,
     profiles |-> [i \in 1..Len(s.profiles) |->
                     [id |-> s.profiles[i].id,
                      active_tools |-> s.profiles[i].active_tools,
                      tool_status |-> s.profiles[i].tool_status]]]

\* the conditions the comparison of two present snapshots tests
ChangeSeen(new, old) ==
    \/ new.gateway_running # old.gateway_running
    \/ new.active_profile_id # old.active_profile_id
    \/ Len(new.profiles) # Len(old.profiles)
    \/ \E i \in 1..Len(new.profiles) :
          \/ \A j \in 1..Len(old.profiles) : old.profiles[j].id # new.profiles[i].id
          \/ FirstCounterpartDiffers(new.profiles[i], old.profiles)

\* C17 as claimed: two present snapshots are changed exactly when
\* gateway_running differs, or active_profile_id differs, or the numbers of
\* profiles differ, or a new profile has no old profile with its id, or the
\* first old profile with its id differs from it in active_tools or
\* tool_status; and snapshots that differ only in control_port, mcp_port or
\* the running flags are unchanged.
C17_ChangedExactlyWhenAndPortsIgnored ==
    (evald /\ IsSome(argLast) /\ IsSome(argStatus)) =>
        /\ resChanged <=> ChangeSeen(Unwrap(argStatus), Unwrap(argLast))
        /\ Compared(Unwrap(argStatus)) = Compared(Unwrap(argLast)) => ~resChanged

\* C17 as amended: the same equivalence; and snapshots that differ only in
\* control_port, mcp_port or the running flags are unchanged when each
\* profile agrees in active_tools and tool_status with the first profile
\* that has its id, as it does when the ids are distinct.
C17_ChangedExactlyWhen ==
    (evald /\ IsSome(argLast) /\ IsSome(argStatus)) =>
        /\ resChanged <=> ChangeSeen(Unwrap(argStatus), Unwrap(argLast))
        /\ (/\ Compared(Unwrap(argStatus)) = Compared(Unwrap(argLast))
            /\ ~DisagreesWithFirst(Unwrap(argLast).profiles))
              => ~resChanged
        /\ (/\ Compared(Unwrap(argStatus)) = Compared(Unwrap(argLast))
            /\ DisagreesWithFirst(Unwrap(argLast).profiles))
              => resChanged

\* the snapshots differ in mcp_port and in a running flag only: unchanged
C17_Witness ==
    /\ evald /\ IsSome(argLast) /\ IsSome(argStatus)
    /\ Unwrap(argStatus).mcp_port # Unwrap(argLast).mcp_port
    /\ Len(Unwrap(argStatus).profiles) = 1 /\ Len(Unwrap(argLast).profiles) = 1
    /\ Unwrap(argStatus).profiles[1].running # Unwrap(argLast).profiles[1].running
    /\ Compared(Unwrap(argStatus)) = Compared(Unwrap(argLast))
    /\ ~resChanged

(***************************************************************************)
(* The claims: what a poll cycle changes (Spec)                            *)
(***************************************************************************)
\* this step is the comparison and update of one poll cycle
ApplyStep == ppc = "apply" /\ ppc' = "sleep"

\* this step is neither that, nor setup building the tray, nor the process
\* ending
OtherStep == ~ApplyStep /\ app # "setup" /\ app' # "exited"

\* C18 as claimed: a changed verdict puts the new result in last_status and
\* sets menu and icon from that result in the same cycle; an unchanged
\* verdict leaves last_status, menu and icon alone; no other step of the
\* running application touches them.
C18_ChangedRerenders ==
    [][/\ ApplyStep =>
            IF status_changed(status, last_status)
            THEN /\ last_status' = status
                 /\ menu' = build_tray_menu(status)
                 /\ icon' = icon_name(status)
            ELSE /\ last_status' = last_status
                 /\ menu' = menu
                 /\ icon' = icon
       /\ OtherStep => (last_status' = last_status /\ menu' = menu /\ icon' = icon)
      ]_vars

\* C18 as amended: a changed verdict puts the new result in last_status and,
\* in the same cycle, sets the menu from that result or leaves it as it was,
\* and sets the icon from that result or leaves it as it was; an unchanged
\* verdict leaves last_status, menu and icon alone; no other step of the
\* running application touches them.
C18_ChangedAttemptsRerender ==
    [][/\ ApplyStep =>
            IF status_changed(status, last_status)
            THEN /\ last_status' = status
                 /\ menu' \in {build_tray_menu(status), menu}
                 /\ icon' \in {icon_name(status), icon}
            ELSE /\ last_status' = last_status
                 /\ menu' = menu
                 /\ icon' = icon
       /\ OtherStep => (last_status' = last_status /\ menu' = menu /\ icon' = icon)
      ]_vars

\* a cycle has accepted a present result and shown its menu and its icon
C18_Witness ==
    /\ ppc = "sleep"
    /\ IsSome(status) /\ last_status = status
    /\ menu = build_tray_menu(status)
    /\ icon = icon_name(status)

(***************************************************************************)
(* The claims: the polling loop goes on (SpecLive)                         *)
(***************************************************************************)
\* the polling task's next position, the process not ending in this step
PollOrder ==
    /\ ppc = "off" => ppc' \in {"off", "delay"}
    /\ ppc = "delay" => ppc' \in {"delay", "fetch"}
    /\ ppc = "fetch" => ppc' \in {"fetch", "apply"}
    /\ ppc = "apply" => ppc' \in {"apply", "sleep"}
    /\ ppc = "sleep" => ppc' \in {"sleep", "fetch"}

StoreStep == \E t \in Tasks : rpc[t] = "store" /\ rpc'[t] = "reload"

\* this step is one of the polling task
PollerStep == ppc' # ppc /\ app # "setup" /\ app' # "exited"

\* C20: until the process ends, the slot is written only by setup's spawn,
\* by the kill and by the store of a restart task, and by the exit handler's
\* kill; no step of the polling task writes it; last_status is written only
\* by the polling task's comparison, so not by a restart task and not by
\* Quit or Show.
C20_OnlySupervisorWritesSlot ==
    [][app' # "exited" =>
          /\ slot' # slot => (app = "setup" \/ KillStep \/ StoreStep)
          /\ PollerStep => (slot' = slot /\ alive' = alive /\ rpc' = rpc)
          /\ last_status' # last_status => ApplyStep
          /\ (rpc' # rpc \/ app' # app) => last_status' = last_status
      ]_vars

\* a restart has replaced the child of setup while the polling task holds an
\* accepted snapshot
C20_Witness ==
    /\ rpc[1] = "reload"
    /\ slot = 2
    /\ last_status = Some(UpSnapshot)

(***************************************************************************)
(* The claims: what the diff lets through (SpecDiff)                       *)
(***************************************************************************)
\* C21: whenever status_changed reports unchanged for last_status and
\* status, the two render to the same menu and to the same icon, so the
\* update the polling task skips would have shown nothing new.
C21_UnchangedRendersSame ==
    (evald /\ ~resChanged) => (resMenu = resLastMenu /\ resIcon = resLastIcon)

(***************************************************************************)
(* The claims: the handles of the children (Spec)                          *)
(***************************************************************************)
\* the children a later kill_backend can still get at: the one in the slot
\* and those a restart task holds between its spawn and its store
Reachable == {slot} \cup {rchild[t] : t \in Tasks}

\* C22: every store of a new child by a restart task meets an empty slot,
\* and while the application runs every live child is held by the slot or
\* by the task that is about to store it, under every interleaving of setup
\* and restart tasks.
C22_NoHandleLeaked ==
    /\ [][StoreStep => slot = 0]_vars
    /\ [](app = "running" => alive \subseteq Reachable)

====
